---- MODULE Spec2Model ----
(***************************************************************************)
(* A model of diceGame.js: the commit/reveal protocol (class Protocol),    *)
(* the dice assignment (DiceSelection.start), the two roll rounds          *)
(* (DiceRoller.start), the menu loop (Menu.readInput), the configuration   *)
(* parser (DiceConfigParser) and the probability table.                    *)
(*                                                                         *)
(* Spec          one run of main() on a command line drawn from Argvs.     *)
(* SpecProtocol  one Protocol instance whose methods start() and reveal()  *)
(*               are called in any order (the class's public interface).   *)
(* SpecConfig    main() up to its first prompt, and the help table there,  *)
(*               on every command line of up to MaxArgs arguments drawn    *)
(*               from DieStrings.                                          *)
(***************************************************************************)
EXTENDS Integers, Sequences, FiniteSets, TLC

(* ---------------------------------------------------------------- bounds *)

\* Number of distinct values crypto.randomBytes(32) can return in the model.
NumKeys == 1

\* Number of method calls made on the instance in SpecProtocol.
MaxCalls == 3

\* Number of command-line arguments in SpecConfig.
MaxArgs == 3

(* ------------------------------------------------------- JavaScript values *)

\* null: the initial value of Protocol's fields and of the dice references.
Null == -1

\* undefined: the value of an array read past the end of the array.
Undefined == -2

\* NaN: the value of Number(s) for a string s that is not a numeric literal.
NaN == -3

Keys == 1 .. NumKeys

Digits == <<"0", "1", "2", "3", "4", "5", "6", "7", "8", "9">>

IsDigit(c) == \E i \in 1 .. 10 : Digits[i] = c

DigitValue(c) == (CHOOSE i \in 1 .. 10 : Digits[i] = c) - 1

\* Number(s) for a string s given as its sequence of characters, over the
\* alphabet of decimal digits and other characters: "" is 0, a run of digits
\* is its decimal value, anything else is NaN.
RECURSIVE DecimalValue(_)
DecimalValue(s) ==
    IF s = <<>> THEN 0
    ELSE 10 * DecimalValue(SubSeq(s, 1, Len(s) - 1)) + DigitValue(s[Len(s)])

Number(s) ==
    IF \A i \in 1 .. Len(s) : IsDigit(s[i]) THEN DecimalValue(s) ELSE NaN

\* index.toString() for the indexes a menu offers.
IndexToString(i) == <<Digits[i + 1]>>

\* str.split(","): the maximal runs of characters between commas.
RECURSIVE Split(_)
Split(s) ==
    IF \A i \in 1 .. Len(s) : s[i] # ","
    THEN <<s>>
    ELSE LET k == CHOOSE i \in 1 .. Len(s) :
                      s[i] = "," /\ \A j \in 1 .. (i - 1) : s[j] # ","
         IN  <<SubSeq(s, 1, k - 1)>> \o Split(SubSeq(s, k + 1, Len(s)))

\* splice that removes nothing.
SpliceNothing(seq, index) == seq

\* splice(index, 2): the element at index and the one after it are removed.
SpliceTwo(seq, index) ==
    SubSeq(seq, 1, index) \o SubSeq(seq, index + 3, Len(seq))

\* array.splice(index, 1) on a sequence, index counted from 0.
Splice(seq, index) ==
    SubSeq(seq, 1, index) \o SubSeq(seq, index + 2, Len(seq))

(* ------------------------------------------------------------ the inputs *)

\* The characters of a command-line argument whose comma-separated fields
\* are the given single characters.
RECURSIVE Csv(_)
Csv(fields) ==
    IF Len(fields) <= 1 THEN fields
    ELSE <<fields[1], ",">> \o Csv(Tail(fields))

\* process.argv.slice(2): the command lines the model runs main() on.
Argvs ==
    { <<Csv(<<"2", "2", "4", "4", "9", "9">>), Csv(<<"1", "5">>),
        <<"1", "0", ",", "3", ",", "3">>>>,
      <<Csv(<<"1", "2">>), Csv(<<"3", "4">>)>>,
      <<Csv(<<"1", "2">>), Csv(<<"3", "x">>), Csv(<<"5", "6">>)>>,
      <<Csv(<<"1", "2">>), Csv(<<"7">>), Csv(<<"5", "6">>)>> }

\* The arguments of the command lines of SpecConfig: dice of the usual six
\* faces, shorter dice, and arguments with a letter, one field, an empty
\* field and no character at all.
DieStrings ==
    { Csv(<<"2", "2", "4", "4", "9", "9">>),
      Csv(<<"1", "1", "6", "6", "8", "8">>),
      Csv(<<"1", "2">>),
      <<"1", "0", ",", "3", ",", "3">>,
      Csv(<<"3", "x">>),
      <<"7">>,
      <<"1", ",">>,
      <<>> }

\* The lines a user types at a prompt, after trim().
InputLines ==
    { IndexToString(i) : i \in 0 .. 6 } \cup { <<"X">>, <<"?">>, <<"x">>, <<>> }

(* ------------------------------------------------------------- the state *)

VARIABLES
    argv,          \* DiceConfigParser.argv
    pc,            \* where main() stands: the prompt it waits at, or its end
    rawConfig,     \* DiceConfigParser.diceConfig: the faces of each die
    dice,          \* DiceSelection.dice: the Dice objects still in the set,
                   \* each named by its position in the configuration
    userDice,      \* DiceSelection.userDice
    computerDice,  \* DiceSelection.computerDice
    proto,         \* the Protocol instances, in order of construction
    calls,         \* per Protocol instance, the methods called on it
    trace,         \* what the console shows: printed values, accepted answers
    userGuess,     \* DiceSelection.start: userGuess
    userSelection, \* DiceRoller.start: userSelection, one per roll round
    fair,          \* DiceRoller.start: result before the roll, one per round
    computerResult,\* main: computerResult
    userResult,    \* main: userResult
    outcome,       \* what DiceRoller.result reported
    exitCode,      \* the exit status of the process once it has ended
    err,           \* the error raised, if any
    table          \* the probability table a help request rendered at this
                   \* prompt, if any

vars == <<argv, pc, rawConfig, dice, userDice, computerDice, proto, calls,
          trace, userGuess, userSelection, fair, computerResult, userResult,
          outcome, exitCode, err, table>>

(* ------------------------------------------------------------ class Dice *)

\* Dice.getValues of the die built from configuration entry `die`.
Values(die) == rawConfig[die]

\* Dice.numberOfFaces
NumberOfFaces(die) == Len(Values(die))

\* Dice.roll(index): this.values[index], undefined past the last face.
Roll(die, index) ==
    IF index + 1 \in 1 .. NumberOfFaces(die)
    THEN Values(die)[index + 1]
    ELSE Undefined

(* ------------------------------------------------ class DiceConfigParser *)

\* str.split(",").map(Number)
ParseDie(str) == [i \in 1 .. Len(Split(str)) |-> Number(Split(str)[i])]

\* The test of line 70, negated: the parts make a die.
AcceptsDie(parts) ==
    ~ (Len(parts) < 2 \/ \E i \in 1 .. Len(parts) : parts[i] = NaN)

\* A constructor that asks for two dice only.
AcceptsConfigOfTwo(args) ==
    /\ ~ (Len(args) < 2)
    /\ \A i \in 1 .. Len(args) : AcceptsDie(ParseDie(args[i]))

\* The constructor returns without throwing.
AcceptsConfig(args) ==
    /\ ~ (Len(args) < 3)
    /\ \A i \in 1 .. Len(args) : AcceptsDie(ParseDie(args[i]))

\* getRawDiceConfig()
GetRawDiceConfig(args) == [i \in 1 .. Len(args) |-> ParseDie(args[i])]

\* getDiceConfig(): one Dice object per configuration entry.
GetDiceConfig(args) == [i \in 1 .. Len(args) |-> i]

(* ----------------------------------------- class ProbabilityCalculator *)

\* computeWinProbability with x >= y for x > y.
ComputeWinProbabilityTies(userFaces, computerFaces) ==
    <<Cardinality({ p \in (1 .. Len(userFaces)) \X (1 .. Len(computerFaces)) :
                      userFaces[p[1]] >= computerFaces[p[2]] }),
      Len(userFaces) * Len(computerFaces)>>

\* computeWinProbability with userDice.length squared for the total.
ComputeWinProbabilitySquare(userFaces, computerFaces) ==
    <<Cardinality({ p \in (1 .. Len(userFaces)) \X (1 .. Len(computerFaces)) :
                      userFaces[p[1]] > computerFaces[p[2]] }),
      Len(userFaces) * Len(userFaces)>>

\* computeWinProbability as the pair <<wins, total>> of its quotient.
ComputeWinProbability(userFaces, computerFaces) ==
    <<Cardinality({ p \in (1 .. Len(userFaces)) \X (1 .. Len(computerFaces)) :
                      userFaces[p[1]] > computerFaces[p[2]] }),
      Len(userFaces) * Len(computerFaces)>>

\* TableGenerator.generate: the rows of the table, one cell per pair of dice.
GenerateTable(diceList) ==
    [i \in 1 .. Len(diceList) |->
        [j \in 1 .. Len(diceList) |->
            ComputeWinProbability(diceList[i], diceList[j])]]

(* ------------------------------ classes RandomGenerator, HmacCalculator *)

\* RandomGenerator.rand(range): the values crypto.randomInt(0, range) returns.
Rand(range) == 0 .. (range - 1)

\* HmacCalculator.calcHmac(num, key): the MAC of the one byte Buffer.from([num])
\* under key, taken to be free of collisions.
CalcHmac(num, key) == key * 256 + (num % 256)

\* HmacCalculator.printHmac on the console, for Protocol instance p.
PrintHmac(console, p, hmac) == Append(console, <<"HMAC", p, hmac>>)

\* RandomGenerator.printKey
PrintKey(console, p, key) == Append(console, <<"KEY", p, key>>)

(* -------------------------------------------------------- class Protocol *)

\* new Protocol(range)
NewProtocol(range) ==
    [range |-> range, key |-> Null, computerNum |-> Null, hmac |-> Null,
     userFirst |-> FALSE]

\* start() with computeHmac called before generateRandomIndex.
ProtocolStartHmacFirst(this, key, num) ==
    [this EXCEPT !.key = key, !.computerNum = num,
                 !.hmac = CalcHmac(this.computerNum, key)]

\* Protocol.start() up to printHmac: generateKey, generateRandomIndex(range),
\* computeHmac, with the values the two random sources returned.
ProtocolStart(this, key, num) ==
    [this EXCEPT !.key = key, !.computerNum = num, !.hmac = CalcHmac(num, key)]

\* The first line Protocol.reveal() prints.
PrintSelection(console, p, num) == Append(console, <<"selection", p, num>>)

\* Protocol.reveal() throws: printKey calls key.toString on a null key.
RevealThrows(this) == this.key = Null

\* Protocol.reveal() on the console: the selection, then the key unless
\* printKey throws.
Reveal(console, p, this) ==
    IF RevealThrows(this)
    THEN PrintSelection(console, p, this.computerNum)
    ELSE PrintKey(PrintSelection(console, p, this.computerNum), p, this.key)

\* The value Menu.promptSelection returned, accepted by its caller.
Accept(console, p, kind, answer) == Append(console, <<kind, p, answer>>)

(* ------------------------------------------------------------ class Menu *)

\* A menu that accepts one index more than it lists.
OfferedOneMore(n) ==
    { IndexToString(i) : i \in 0 .. n } \cup { <<"X">>, <<"?">> }

\* promptSelection: the answers readInput accepts for n options.
Offered(n) == { IndexToString(i) : i \in 0 .. (n - 1) } \cup { <<"X">>, <<"?">> }

\* The prompts of one game.
Prompts == { "guess", "pickFirst", "pickSecond", "roll1", "roll2" }

\* The number of options the prompt main() waits at offers.
NumOptions ==
    CASE pc = "guess" -> 2
      [] pc \in { "pickFirst", "pickSecond" } -> Len(dice)
      [] pc \in { "roll1", "roll2" } -> 6
      [] OTHER -> 0

\* A readInput that never returns.
ReturnsNothing(line) == FALSE

\* readInput returns, with Number(answer), for an answer that is an offered
\* index.
Returns(line) ==
    /\ line \in Offered(NumOptions)
    /\ line \notin { <<"X">>, <<"?">> }

\* readInput: an answer that is not offered prints a notice and asks again;
\* nothing of the game changes.
ReadInvalid ==
    /\ pc \in Prompts
    /\ \E line \in InputLines : line \notin Offered(NumOptions)
    /\ UNCHANGED vars

\* A help request whose rendering takes the first die off the dice list.
ReadHelpShifts ==
    /\ pc \in Prompts
    /\ <<"?">> \in InputLines \cap Offered(NumOptions)
    /\ rawConfig # <<>>
    /\ table' = GenerateTable(rawConfig)
    /\ rawConfig' = Tail(rawConfig)
    /\ UNCHANGED <<argv, pc, dice, userDice, computerDice, proto, calls,
                   trace, userGuess, userSelection, fair, computerResult,
                   userResult, outcome, exitCode, err>>

\* readInput: "?" renders the table of the configured dice and asks again.
\* generate() throws only without a dice list, and main() always passes one.
ReadHelp ==
    /\ pc \in Prompts
    /\ <<"?">> \in InputLines \cap Offered(NumOptions)
    /\ table' = GenerateTable(rawConfig)
    /\ UNCHANGED <<argv, pc, rawConfig, dice, userDice, computerDice, proto,
                   calls, trace, userGuess, userSelection, fair,
                   computerResult, userResult, outcome, exitCode, err>>

\* readInput: "X" ends the process with status 1, and the prompt with it.
ReadExit ==
    /\ pc \in Prompts
    /\ <<"X">> \in InputLines \cap Offered(NumOptions)
    /\ pc' = "exit"
    /\ exitCode' = 1
    /\ table' = <<>>
    /\ UNCHANGED <<argv, rawConfig, dice, userDice, computerDice, proto,
                   calls, trace, userGuess, userSelection, fair,
                   computerResult, userResult, outcome, err>>

(* ------------------------------------- DiceSelection, DiceRoller, main *)

\* new Protocol(2) in main: the range of the first-move round.
FirstMoveRange == 2

\* new Protocol(5) in main: the range of both roll rounds.
RollRange == 5

\* A comparison that grants the first move only to a correct guess of 1.
GuessCorrectOnlyOne(guess, computerNumber) ==
    guess = computerNumber /\ guess = 1

\* DiceSelection.start: userGuess === this.protocol.computerNumber
GuessCorrect(guess, computerNumber) == guess = computerNumber

\* The sum reduced modulo the protocol's range instead of 6.
FairValueModRange(computerNumber, selection) ==
    (computerNumber + selection) % RollRange

\* DiceRoller.start: (computerNumber + Number(userSelection)) % 6
FairValue(computerNumber, selection) == (computerNumber + selection) % 6

\* DiceRoller.isUserDice
IsUserDice(whose) == IF whose = "My" THEN FALSE ELSE TRUE

\* JavaScript's a > b on numbers and undefined: false when either is undefined.
JsGreater(a, b) == a # Undefined /\ b # Undefined /\ a > b

\* DiceRoller.result: the line it prints.
Result(user, computer) ==
    IF JsGreater(user, computer) THEN "You win"
    ELSE IF user = computer THEN "It's draw"
    ELSE "I win"

\* DiceRoller.start after the prompt: the die rolled is chosen by whose.
RollResult(whose, user, computer, index) ==
    IF IsUserDice(whose) THEN Roll(user, index) ELSE Roll(computer, index)

Init ==
    /\ argv \in Argvs
    /\ pc = "main"
    /\ rawConfig = <<>>
    /\ dice = <<>>
    /\ userDice = Null
    /\ computerDice = Null
    /\ proto = <<>>
    /\ calls = <<>>
    /\ trace = <<>>
    /\ userGuess = Null
    /\ userSelection = <<>>
    /\ fair = <<>>
    /\ computerResult = Null
    /\ userResult = Null
    /\ outcome = "none"
    /\ exitCode = Null
    /\ err = "none"
    /\ table = <<>>

\* main: the parser throws, the error is printed and the process exits.
ConfigRejected ==
    /\ pc = "main"
    /\ ~ AcceptsConfig(argv)
    /\ err' = IF Len(argv) < 3 THEN "TooFewDice" ELSE "InvalidDie"
    /\ exitCode' = 1
    /\ pc' = "exit"
    /\ UNCHANGED <<argv, rawConfig, dice, userDice, computerDice, proto, calls,
                   trace, userGuess, userSelection, fair, computerResult,
                   userResult, outcome, table>>

\* main up to the first prompt: the configuration is parsed, the selection
\* is built on a new Protocol(2), and DiceSelection.start commits.
GameStart ==
    /\ pc = "main"
    /\ AcceptsConfig(argv)
    /\ rawConfig' = GetRawDiceConfig(argv)
    /\ dice' = GetDiceConfig(argv)
    /\ \E key \in Keys, num \in Rand(FirstMoveRange) :
         LET this == ProtocolStart(NewProtocol(FirstMoveRange), key, num)
         IN  /\ proto' = <<this>>
             /\ calls' = <<<<"start">>>>
             /\ trace' = PrintHmac(trace, 1, this.hmac)
    /\ pc' = "guess"
    /\ UNCHANGED <<argv, userDice, computerDice, userGuess, userSelection,
                   fair, computerResult, userResult, outcome, exitCode, err,
                   table>>

\* DiceSelection.start from the answer to the guess to the next prompt: the
\* guess is compared, the protocol reveals, and on a wrong guess the
\* computer takes a die out of the set.
GuessAnswered ==
    /\ pc = "guess"
    /\ \E line \in InputLines :
         /\ Returns(line)
         /\ userGuess' = Number(line)
         /\ LET guess == Number(line)
                first == GuessCorrect(guess, proto[1].computerNum)
                shown == Reveal(Accept(trace, 1, "guess", guess), 1, proto[1])
            IN  /\ proto' = [proto EXCEPT ![1].userFirst = (first \/ @)]
                /\ calls' = [calls EXCEPT ![1] = Append(@, "reveal")]
                /\ IF proto'[1].userFirst
                   THEN /\ pc' = "pickFirst"
                        /\ trace' = shown
                        /\ UNCHANGED <<dice, computerDice>>
                   ELSE \E index \in Rand(Len(dice)) :
                          /\ computerDice' = dice[index + 1]
                          /\ dice' = Splice(dice, index)
                          /\ trace' = Accept(shown, 1, "computerDice",
                                             dice[index + 1])
                          /\ pc' = "pickSecond"
    /\ table' = <<>>
    /\ UNCHANGED <<argv, rawConfig, userDice, userSelection, fair,
                   computerResult, userResult, outcome, exitCode, err>>

\* A roll round that commits again on the newest Protocol instead of a new
\* one.
StartRollReuse(console, called, key, num) ==
    LET p == Len(proto)
        this == ProtocolStart(proto[p], key, num)
    IN  /\ proto' = [proto EXCEPT ![p] = this]
        /\ calls' = [called EXCEPT ![p] = Append(@, "start")]
        /\ trace' = PrintHmac(console, p, this.hmac)

\* main, lines 266-267, and DiceRoller.start up to its prompt: a new
\* Protocol(5) commits, given the console and the calls made before it.
StartRoll(console, called, key, num) ==
    LET this == ProtocolStart(NewProtocol(RollRange), key, num)
    IN  /\ proto' = Append(proto, this)
        /\ calls' = Append(called, <<"start">>)
        /\ trace' = PrintHmac(console, Len(proto) + 1, this.hmac)

\* DiceSelection.start, the user moves first: the user's die leaves the set
\* and the computer draws one of the rest; then the first roll round commits.
UserPicksFirst ==
    /\ pc = "pickFirst"
    /\ \E line \in InputLines :
         /\ Returns(line)
         /\ LET index == Number(line)
            IN  /\ userDice' = dice[index + 1]
                /\ dice' = Splice(dice, index)
                /\ \E drawn \in Rand(Len(dice')) :
                     /\ computerDice' = dice'[drawn + 1]
                     /\ \E key \in Keys, num \in Rand(RollRange) :
                          StartRoll(Accept(Accept(trace, 1, "userDice",
                                                  dice[index + 1]),
                                           1, "computerDice", dice'[drawn + 1]),
                                    calls, key, num)
    /\ pc' = "roll1"
    /\ table' = <<>>
    /\ UNCHANGED <<argv, rawConfig, userGuess, userSelection, fair,
                   computerResult, userResult, outcome, exitCode, err>>

\* DiceSelection.start, the computer moved first: the user takes a die of
\* the rest, which stays in the set; then the first roll round commits.
UserPicksSecond ==
    /\ pc = "pickSecond"
    /\ \E line \in InputLines :
         /\ Returns(line)
         /\ LET index == Number(line)
            IN  /\ userDice' = dice[index + 1]
                /\ \E key \in Keys, num \in Rand(RollRange) :
                     StartRoll(Accept(trace, 1, "userDice", dice[index + 1]),
                               calls, key, num)
    /\ pc' = "roll1"
    /\ table' = <<>>
    /\ UNCHANGED <<argv, rawConfig, dice, computerDice, userGuess,
                   userSelection, fair, computerResult, userResult, outcome,
                   exitCode, err>>

\* DiceRoller.start without the call of reveal().
RollShownNoReveal(p, whose, selection) ==
    LET value == FairValue(proto[p].computerNum, selection)
    IN  Accept(Accept(Accept(trace, p, "userSelection", selection),
                      p, "fair", value),
               p, "roll", RollResult(whose, userDice, computerDice, value))

\* DiceRoller.start with reveal() called before the prompt is answered.
RollShownRevealFirst(p, whose, selection) ==
    LET value == FairValue(proto[p].computerNum, selection)
    IN  Accept(Accept(Accept(Reveal(trace, p, proto[p]),
                             p, "userSelection", selection),
                      p, "fair", value),
               p, "roll", RollResult(whose, userDice, computerDice, value))

\* DiceRoller.start of instance p after its prompt: the answer is accepted,
\* the protocol reveals, and the fair value indexes the die.  The console
\* after it.
RollShown(p, whose, selection) ==
    LET value == FairValue(proto[p].computerNum, selection)
    IN  Accept(Accept(Reveal(Accept(trace, p, "userSelection", selection),
                             p, proto[p]),
                      p, "fair", value),
               p, "roll", RollResult(whose, userDice, computerDice, value))

\* The computer's roll ("My"), then the second roll round commits.
FirstRollAnswered ==
    /\ pc = "roll1"
    /\ \E line \in InputLines :
         /\ Returns(line)
         /\ LET selection == Number(line)
                value == FairValue(proto[2].computerNum, selection)
            IN  /\ userSelection' = Append(userSelection, selection)
                /\ fair' = Append(fair, value)
                /\ computerResult' =
                     RollResult("My", userDice, computerDice, value)
                /\ \E key \in Keys, num \in Rand(RollRange) :
                     StartRoll(RollShown(2, "My", selection),
                               [calls EXCEPT ![2] = Append(@, "reveal")],
                               key, num)
    /\ pc' = "roll2"
    /\ table' = <<>>
    /\ UNCHANGED <<argv, rawConfig, dice, userDice, computerDice, userGuess,
                   userResult, outcome, exitCode, err>>

\* The user's roll ("Your"), then the result is reported and main returns.
SecondRollAnswered ==
    /\ pc = "roll2"
    /\ \E line \in InputLines :
         /\ Returns(line)
         /\ LET selection == Number(line)
                value == FairValue(proto[3].computerNum, selection)
            IN  /\ userSelection' = Append(userSelection, selection)
                /\ fair' = Append(fair, value)
                /\ userResult' =
                     RollResult("Your", userDice, computerDice, value)
                /\ trace' = RollShown(3, "Your", selection)
    /\ calls' = [calls EXCEPT ![3] = Append(@, "reveal")]
    /\ outcome' = Result(userResult', computerResult)
    /\ pc' = "done"
    /\ exitCode' = 0
    /\ table' = <<>>
    /\ UNCHANGED <<argv, rawConfig, dice, userDice, computerDice, proto,
                   userGuess, computerResult, err>>

Next ==
    \/ ConfigRejected
    \/ GameStart
    \/ ReadInvalid
    \/ ReadHelp
    \/ ReadExit
    \/ GuessAnswered
    \/ UserPicksFirst
    \/ UserPicksSecond
    \/ FirstRollAnswered
    \/ SecondRollAnswered

Spec == Init /\ [][Next]_vars

\* The user answers a prompt with an index it offers.
Answer ==
    \/ GuessAnswered
    \/ UserPicksFirst
    \/ UserPicksSecond
    \/ FirstRollAnswered
    \/ SecondRollAnswered

\* One run of main() in which the user, asked again and again at a prompt,
\* ends up giving an index it offers.
SpecLive == Init /\ [][Next]_vars /\ WF_vars(Answer)

(* ------------------------------- the Protocol class driven by any caller *)

\* One Protocol instance, as main() builds them, before any call.
InitProtocol ==
    /\ argv = <<>>
    /\ pc = "api"
    /\ rawConfig = <<>>
    /\ dice = <<>>
    /\ userDice = Null
    /\ computerDice = Null
    /\ \E range \in { FirstMoveRange, RollRange } : proto = <<NewProtocol(range)>>
    /\ calls = <<<<>>>>
    /\ trace = <<>>
    /\ userGuess = Null
    /\ userSelection = <<>>
    /\ fair = <<>>
    /\ computerResult = Null
    /\ userResult = Null
    /\ outcome = "none"
    /\ exitCode = Null
    /\ err = "none"
    /\ table = <<>>

\* protocol.start()
CallStart ==
    /\ pc = "api"
    /\ Len(calls[1]) < MaxCalls
    /\ \E key \in Keys, num \in Rand(proto[1].range) :
         LET this == ProtocolStart(proto[1], key, num)
         IN  /\ proto' = [proto EXCEPT ![1] = this]
             /\ trace' = PrintHmac(trace, 1, this.hmac)
    /\ calls' = [calls EXCEPT ![1] = Append(@, "start")]
    /\ err' = "none"
    /\ UNCHANGED <<argv, pc, rawConfig, dice, userDice, computerDice,
                   userGuess, userSelection, fair, computerResult, userResult,
                   outcome, exitCode, table>>

\* protocol.reveal()
CallReveal ==
    /\ pc = "api"
    /\ Len(calls[1]) < MaxCalls
    /\ trace' = Reveal(trace, 1, proto[1])
    /\ calls' = [calls EXCEPT ![1] = Append(@, "reveal")]
    /\ err' = IF RevealThrows(proto[1]) THEN "TypeError" ELSE "none"
    /\ UNCHANGED <<argv, pc, rawConfig, dice, userDice, computerDice, proto,
                   userGuess, userSelection, fair, computerResult, userResult,
                   outcome, exitCode, table>>

NextProtocol ==
    \/ CallStart
    \/ CallReveal

SpecProtocol == InitProtocol /\ [][NextProtocol]_vars

(* ------------------------------------ main() on every short command line *)

\* The process before main() runs, on any command line of up to MaxArgs
\* arguments.
InitConfig ==
    /\ argv \in UNION { [1 .. n -> DieStrings] : n \in 0 .. MaxArgs }
    /\ pc = "main"
    /\ rawConfig = <<>>
    /\ dice = <<>>
    /\ userDice = Null
    /\ computerDice = Null
    /\ proto = <<>>
    /\ calls = <<>>
    /\ trace = <<>>
    /\ userGuess = Null
    /\ userSelection = <<>>
    /\ fair = <<>>
    /\ computerResult = Null
    /\ userResult = Null
    /\ outcome = "none"
    /\ exitCode = Null
    /\ err = "none"
    /\ table = <<>>

NextConfig ==
    \/ ConfigRejected
    \/ GameStart
    \/ ReadHelp

SpecConfig == InitConfig /\ [][NextConfig]_vars

(* ------------------------------------------------------------ the claims *)

\* The elements of a sequence.
Range(seq) == { seq[i] : i \in 1 .. Len(seq) }

\* The positions of the console at which instance p shows one of `kinds`.
Positions(p, kinds) ==
    { i \in 1 .. Len(trace) : trace[i][2] = p /\ trace[i][1] \in kinds }

\* The kinds of the answers a protocol round takes from the user.
Contribution == { "guess", "userSelection" }

\* The dice of the configuration, by position.
Configured == 1 .. Len(rawConfig)

\* C1: in every round the tag is printed before the user's guess or
\* contribution is accepted, and the secret number and the key are printed
\* only after both.
CommitThenInputThenReveal ==
    \A p \in 1 .. Len(proto) :
        /\ \A i \in Positions(p, Contribution) :
               \E j \in Positions(p, { "HMAC" }) : j < i
        /\ \A i \in Positions(p, { "selection", "KEY" }) :
               \E j \in Positions(p, { "HMAC" }), k \in Positions(p, Contribution) :
                   j < k /\ k < i

\* C1: a game in which all three rounds have revealed.
AllRoundsRevealed ==
    /\ pc = "done"
    /\ \A p \in 1 .. 3 : Positions(p, { "KEY" }) # {}

\* C2: reveal() as the first call on an instance fails with a
\* ProtocolStateError, prints nothing and leaves the instance as constructed.
RevealBeforeStartRejected ==
    calls[1] = <<"reveal">> =>
        /\ err = "ProtocolStateError"
        /\ trace = <<>>
        /\ proto[1] = NewProtocol(proto[1].range)

\* C3: a second start() on an instance fails with a ProtocolStateError and
\* the tag stays the one the first start() printed.
SecondStartRejected ==
    calls[1] = <<"start", "start">> =>
        /\ err = "ProtocolStateError"
        /\ proto[1].hmac = trace[1][3]

\* C4: both roll rounds run the protocol with range 6, the modulus of the
\* combination.
RollRoundsUseRangeSix ==
    \A p \in 2 .. Len(proto) : proto[p].range = 6

\* C5: the fair value of a roll round is (secret + contribution) mod 6, lies
\* in 0..5, and for the secret the round committed to, the contributions
\* 0..5 give the six results 0..5, each once.
FairValueIsBijection ==
    /\ \A r \in 1 .. Len(fair) :
           /\ fair[r] = (proto[r + 1].computerNum + userSelection[r]) % 6
           /\ fair[r] \in 0 .. 5
    /\ \A p \in 2 .. Len(proto) :
           /\ { FairValue(proto[p].computerNum, c) : c \in 0 .. 5 } = 0 .. 5
           /\ \A c, d \in 0 .. 5 :
                  FairValue(proto[p].computerNum, c)
                      = FairValue(proto[p].computerNum, d) => c = d

\* C5: a roll round whose sum wraps around the modulus.
FairValueWraps ==
    /\ Len(fair) = 2
    /\ proto[2].computerNum = 4
    /\ userSelection[1] = 5
    /\ fair[1] = 3

\* C6: each roll value is a face of the rolling party's own die.
RollIsFaceOfOwnDie ==
    /\ computerResult # Null => computerResult \in Range(Values(computerDice))
    /\ userResult # Null => userResult \in Range(Values(userDice))

\* C7: once the selection is over each party holds one die of the
\* configuration and the two differ; whoever picks second picks among the
\* dice left after the first pick was removed.
DiceAssignedDistinct ==
    /\ userDice # Null =>
           /\ userDice \in Configured
           /\ computerDice \in Configured
           /\ userDice # computerDice
           /\ proto[1].userFirst =>
                  userDice \notin Range(dice) /\ computerDice \in Range(dice)
           /\ ~ proto[1].userFirst =>
                  computerDice \notin Range(dice) /\ userDice \in Range(dice)
    /\ pc = "pickSecond" =>
           computerDice \in Configured /\ computerDice \notin Range(dice)

\* C7: a finished game in which the computer picked first.
ComputerPickedFirst ==
    /\ pc = "done"
    /\ ~ proto[1].userFirst
    /\ userDice # Null
    /\ computerDice # Null

\* C8 as stated: after both assignments the set holds two dice fewer than
\* the configuration.
DiceSetShrinksTwice ==
    (userDice # Null /\ computerDice # Null) =>
        Len(dice) = Len(rawConfig) - 2

\* The die assigned first.
FirstAssigned == IF proto[1].userFirst THEN userDice ELSE computerDice

\* C8 amended: the set is the whole configuration until the first
\* assignment, which removes the assigned die; the second assignment removes
\* nothing, so the set ends one die short of the configuration.
DiceSetSizes ==
    /\ (userDice = Null /\ computerDice = Null) =>
           Len(dice) = Len(rawConfig) /\ Range(dice) = Configured
    /\ (userDice # Null \/ computerDice # Null) =>
           /\ Len(dice) = Len(rawConfig) - 1
           /\ Range(dice) = Configured \ { FirstAssigned }

\* C8 amended, whole: the sizes above, and no step after the set is built
\* makes it longer.
DiceSetShrinksOnce ==
    /\ []DiceSetSizes
    /\ [][pc # "main" => Len(dice') <= Len(dice)]_vars

\* C8: a finished game on three dice, two of them left in the set.
TwoDiceLeft ==
    /\ pc = "done"
    /\ Len(rawConfig) = 3
    /\ Len(dice) = 2
    /\ userDice # Null
    /\ computerDice # Null

\* C9: the user picks first exactly when the guess equals the secret, then
\* from the whole set, the computer drawing from the rest; otherwise the
\* computer is assigned first and the user picks from the rest.
FirstMoveByGuess ==
    userGuess # Null =>
        /\ proto[1].userFirst <=> (userGuess = proto[1].computerNum)
        /\ pc = "pickFirst" =>
               /\ proto[1].userFirst
               /\ userDice = Null /\ computerDice = Null
               /\ Range(dice) = Configured
        /\ pc = "pickSecond" =>
               /\ ~ proto[1].userFirst
               /\ userDice = Null /\ computerDice # Null
               /\ Range(dice) = Configured \ { computerDice }
        /\ userDice # Null =>
               \E u \in Positions(1, { "userDice" }),
                  c \in Positions(1, { "computerDice" }) :
                   proto[1].userFirst <=> u < c

\* C9: the user guessed the secret 1 and is asked to pick first.
GuessedOne ==
    /\ pc = "pickFirst"
    /\ userGuess = 1
    /\ proto[1].computerNum = 1

\* JavaScript's a < b on numbers and undefined.
JsLess(a, b) == JsGreater(b, a)

\* C10: the reported outcome is the user's win exactly when userRoll >
\* computerRoll, the computer's exactly when userRoll < computerRoll, and a
\* draw exactly when they are equal.
OutcomeByRolls ==
    pc = "done" =>
        /\ outcome \in { "You win", "I win", "It's draw" }
        /\ outcome = "You win" <=> JsGreater(userResult, computerResult)
        /\ outcome = "I win" <=> JsLess(userResult, computerResult)
        /\ outcome = "It's draw" <=> userResult = computerResult

\* C11: a command line of fewer than three arguments is rejected before any
\* round: nothing is printed by a protocol, main() never waits at a prompt,
\* no die is assigned, and the process ends with status 1.
RejectsFewerThanThree ==
    Len(argv) < 3 =>
        /\ pc \in { "main", "exit" }
        /\ trace = <<>>
        /\ proto = <<>>
        /\ dice = <<>>
        /\ userDice = Null /\ computerDice = Null
        /\ pc = "exit" => (exitCode = 1 /\ err = "TooFewDice")

\* C11: two well-formed dice, rejected.
TwoDiceRejected ==
    /\ Len(argv) = 2
    /\ \A i \in 1 .. 2 : AcceptsDie(ParseDie(argv[i]))
    /\ pc = "exit"
    /\ exitCode = 1

\* A field of an argument that is a number as written: decimal digits, at
\* least one.
IsNumeral(field) ==
    field # <<>> /\ \A i \in 1 .. Len(field) : IsDigit(field[i])

\* An argument that does not give a die: fewer than two fields, or a field
\* that is not a number.
Malformed(str) ==
    \/ Len(Split(str)) < 2
    \/ \E i \in 1 .. Len(Split(str)) : ~ IsNumeral(Split(str)[i])

\* C12: a command line with a malformed die is rejected before any round,
\* and in a game that has started every die has two faces or more, all
\* numbers.
RejectsMalformedDie ==
    /\ (pc # "main" /\ \E i \in 1 .. Len(argv) : Malformed(argv[i])) =>
           /\ pc = "exit"
           /\ exitCode = 1
           /\ trace = <<>> /\ proto = <<>>
    /\ proto # <<>> =>
           \A d \in 1 .. Len(rawConfig) :
               /\ Len(rawConfig[d]) >= 2
               /\ \A f \in 1 .. Len(rawConfig[d]) : rawConfig[d][f] \in Nat

\* The number of faces of faces that are less than a.
RECURSIVE CountLess(_, _)
CountLess(a, faces) ==
    IF faces = <<>> THEN 0
    ELSE (IF faces[1] < a THEN 1 ELSE 0) + CountLess(a, Tail(faces))

\* The number of pairs (a, b) of A x B with a > b, face by face of A.
RECURSIVE CountWins(_, _)
CountWins(A, B) ==
    IF A = <<>> THEN 0
    ELSE CountLess(A[1], B) + CountWins(Tail(A), B)

\* The number of pairs (a, b) of A x B with a = b.
CountTies(A, B) ==
    Cardinality({ p \in (1 .. Len(A)) \X (1 .. Len(B)) : A[p[1]] = B[p[2]] })

\* C13: every cell of the table, the diagonal included, is the number of
\* pairs with a > b over |A| * |B|; it is 20 of 36 for [2,2,4,4,9,9] against
\* [1,1,6,6,8,8].
TableCountsWins ==
    table # <<>> =>
        \A i, j \in 1 .. Len(rawConfig) :
            LET A == rawConfig[i]
                B == rawConfig[j]
            IN  /\ table[i][j] = <<CountWins(A, B), Len(A) * Len(B)>>
                /\ (A = <<2, 2, 4, 4, 9, 9>> /\ B = <<1, 1, 6, 6, 8, 8>>) =>
                       table[i][j] = <<20, 36>>

\* C13: the table of a configuration that holds both dice of the example and
\* a die of another length.
ExampleDiceInTable ==
    /\ table # <<>>
    /\ rawConfig[1] = <<2, 2, 4, 4, 9, 9>>
    /\ rawConfig[2] = <<1, 1, 6, 6, 8, 8>>
    /\ rawConfig[3] = <<1, 2>>
    /\ table[1][2] = <<20, 36>>
    /\ table[1][1] = <<12, 36>>

\* C19: for every pair of dice wins(A,B) + wins(B,A) + ties(A,B) = |A| * |B|,
\* every cell lies in [0, 1], and value(A,B) + value(B,A) <= 1 with equality
\* exactly when A and B share no face.
WinsAndTiesAddUp ==
    table # <<>> =>
        \A i, j \in 1 .. Len(rawConfig) :
            LET A == rawConfig[i]
                B == rawConfig[j]
                total == Len(A) * Len(B)
            IN  /\ table[i][j][2] = total /\ table[j][i][2] = total
                /\ total > 0
                /\ table[i][j][1] + table[j][i][1] + CountTies(A, B) = total
                /\ table[i][j][1] \in 0 .. total
                /\ table[i][j][1] + table[j][i][1] <= total
                /\ table[i][j][1] + table[j][i][1] = total
                       <=> Range(A) \cap Range(B) = {}

\* C19: a table with a pair of dice that tie on a face and a pair that never
\* ties.
TiesAndNoTies ==
    /\ table # <<>>
    /\ rawConfig[1] = <<1, 2>>
    /\ rawConfig[2] = <<1, 1, 6, 6, 8, 8>>
    /\ rawConfig[3] = <<2, 2, 4, 4, 9, 9>>
    /\ table[1][2][1] + table[2][1][1] < 12
    /\ table[2][3][1] + table[3][2][1] = 36

FreshProtocolPerRound ==
    /\ Len(calls) = Len(proto)
    /\ Len(proto) <= 3
    /\ pc \in { "guess", "pickFirst", "pickSecond" } => Len(proto) = 1
    /\ pc = "roll1" => Len(proto) = 2
    /\ pc \in { "roll2", "done" } => Len(proto) = 3
    /\ \A i \in 1 .. Len(trace) : trace[i][2] \in 1 .. Len(proto)
    /\ \A p \in 1 .. Len(proto) :
           /\ calls[p] \in { <<"start">>, <<"start", "reveal">> }
           /\ Cardinality(Positions(p, { "HMAC" })) = 1
           /\ Cardinality(Positions(p, { "KEY" }))
                  = (IF calls[p] = <<"start">> THEN 0 ELSE 1)
           /\ Cardinality(Positions(p, Contribution)) <= 1
           /\ Positions(p, { "guess" }) # {} => p = 1
           /\ Positions(p, { "userSelection" }) # {} => p \in { 2, 3 }
           /\ \A i \in Positions(p, { "HMAC" }) : trace[i][3] = proto[p].hmac
           /\ \A i \in Positions(p, { "selection" }) :
                  trace[i][3] = proto[p].computerNum
           /\ \A i \in Positions(p, { "KEY" }) : trace[i][3] = proto[p].key

\* C15: a finished game: three instances, each started and revealed.
ThreeInstancesUsed ==
    /\ pc = "done"
    /\ Len(proto) = 3
    /\ \A p \in 1 .. 3 : calls[p] = <<"start", "reveal">>

\* C16: the first-move round reveals before the dice are assigned, both dice
\* are assigned before the first roll round commits, the first roll round
\* has revealed and rolled before the second commits, and the outcome is
\* reported after both roll rounds have revealed.
GameInFixedOrder ==
    /\ Len(proto) >= 2 => (userDice # Null /\ computerDice # Null)
    /\ \A h \in Positions(2, { "HMAC" }) :
           \E k \in Positions(1, { "KEY" }), u \in Positions(1, { "userDice" }),
              c \in Positions(1, { "computerDice" }) :
               k < u /\ k < c /\ u < h /\ c < h
    /\ \A h \in Positions(3, { "HMAC" }) :
           \E k \in Positions(2, { "KEY" }), r \in Positions(2, { "roll" }) :
               k < r /\ r < h
    /\ outcome # "none" <=> pc = "done"
    /\ outcome # "none" =>
           /\ computerResult # Null /\ userResult # Null
           /\ \E k2 \in Positions(2, { "KEY" }), k3 \in Positions(3, { "KEY" }),
                 r3 \in Positions(3, { "roll" }) :
                  k2 < k3 /\ k3 < r3

\* C16: a finished game with its outcome reported.
OutcomeReported ==
    /\ pc = "done"
    /\ outcome = "You win"
    /\ Len(trace) = 18

\* What a step taken at a prompt may do: ask again and change nothing of the
\* game, exit, or go on with an index in 0 .. N-1 for the N options offered.
PromptStep ==
    /\ pc' = pc =>
           UNCHANGED <<argv, rawConfig, dice, userDice, computerDice, proto,
                       calls, trace, userGuess, userSelection, fair,
                       computerResult, userResult, outcome, exitCode, err>>
    /\ pc' = "exit" => exitCode' = 1
    /\ (pc = "guess" /\ pc' \notin { pc, "exit" }) =>
           userGuess' \in 0 .. (NumOptions - 1)
    /\ (pc \in { "pickFirst", "pickSecond" } /\ pc' \notin { pc, "exit" }) =>
           (\E index \in 0 .. (NumOptions - 1) : userDice' = dice[index + 1])
    /\ (pc \in { "roll1", "roll2" } /\ pc' \notin { pc, "exit" }) =>
           /\ Len(userSelection') = Len(userSelection) + 1
           /\ userSelection'[Len(userSelection')] \in 0 .. (NumOptions - 1)

\* C17: a prompt stays put on an answer that is not an offered index, leaving
\* the game as it is, and it is left only with an index in 0..N-1 for the N
\* options it offers, or by the exit.
PromptReturnsOfferedIndex == [][(pc \in Prompts) => PromptStep]_vars

\* C17: the help table on screen at the second roll's prompt.
HelpAtSecondRoll ==
    /\ pc = "roll2"
    /\ table # <<>>
    /\ userSelection = <<5>>

\* What a step that renders the help table leaves alone.
HelpStep ==
    /\ table' = GenerateTable(rawConfig)
    /\ UNCHANGED <<argv, pc, rawConfig, dice, userDice, computerDice, proto,
                   calls, trace, userGuess, userSelection, fair,
                   computerResult, userResult, outcome, exitCode, err>>

\* C18: a step that renders the help table changes neither the dice set, nor
\* the dice assigned, nor any Protocol's fields, nor anything else of the game.
HelpChangesNothing ==
    [][(table' # table /\ table' # <<>>) => HelpStep]_vars

\* C18: the help table on screen after the computer took its die.
HelpAfterAssignment ==
    /\ pc = "pickSecond"
    /\ table # <<>>
    /\ computerDice # Null
    /\ Len(dice) = 2

\* C20: a game that has started ends; when it ends by returning it has run
\* three rounds, the guess asked once, and reported one outcome, which stays;
\* when it ends by exit no outcome is reported.
GameTerminates ==
    /\ (pc \in Prompts) ~> (pc \in { "done", "exit" })
    /\ [](pc = "done" =>
             /\ exitCode = 0
             /\ Len(proto) = 3
             /\ \A p \in 1 .. 3 : calls[p] = <<"start", "reveal">>
             /\ Cardinality(Positions(1, { "guess" })) = 1
             /\ outcome # "none")
    /\ [](pc = "exit" => (exitCode = 1 /\ outcome = "none"))
    /\ [][(outcome # "none") => (outcome' = outcome)]_vars
    /\ [][(pc \in { "done", "exit" }) => (pc' = pc)]_vars

\* C20: a game that ended by returning after a help request on the way.
EndedByReturn ==
    /\ pc = "done"
    /\ exitCode = 0
    /\ Len(userSelection) = 2

====
